---- MODULE Spec2Model ----
(***************************************************************************)
(* Model of the Mermaid exporter plugin (src/main.ts): settings loading    *)
(* and editing, extraction of mermaid blocks from the active note, the     *)
(* selection modal, and the export handler with its render and save steps. *)
(*                                                                         *)
(* Strings are sequences of one-character strings, so that startsWith,     *)
(* substring, replace and trim are computed character by character.        *)
(***************************************************************************)
EXTENDS Integers, Sequences, FiniteSets, TLC

VARIABLES
    data,        \* the persisted record that loadData() returns
    settings,    \* MermaidExporter.settings
    file,        \* the active file: its name, content and metadata cache
    modals,      \* the MermaidSelectionModal instances, in creation order
    cmdLog,      \* the notices of exportMermaidDiagrams, one entry per call
    procs,       \* the running export handlers (exportBtn.onclick, saveSvgAsImage)
    fs,          \* the file system: the set of <<path, content>> of existing files
    containers   \* the temporary containers attached to document.body

vars == <<data, settings, file, modals, cmdLog, procs, fs, containers>>

(***************************************************************************)
(* Strings                                                                 *)
(***************************************************************************)
NL == "\n"

\* the backquote character (a TLA+ string cannot hold it)
BQ == "BQ"

Fence == <<BQ, BQ, BQ>>

\* the literal fence marker of lines 111 and 112: three backquotes and mermaid
FenceMarker == Fence \o <<"m", "e", "r", "m", "a", "i", "d">>

\* String.prototype.substring(start, end) with 0-based offsets, start <= end
Substring(s, start, end) ==
    IF end <= start THEN <<>> ELSE SubSeq(s, start + 1, end)

\* String.prototype.startsWith
StartsWith(s, prefix) ==
    /\ Len(s) >= Len(prefix)
    /\ SubSeq(s, 1, Len(prefix)) = prefix

EndsWith(s, suffix) ==
    /\ Len(s) >= Len(suffix)
    /\ SubSeq(s, Len(s) - Len(suffix) + 1, Len(s)) = suffix

Drop(s, n) == SubSeq(s, n + 1, Len(s))

DropLast(s, n) == SubSeq(s, 1, Len(s) - n)

\* line 112, first replace: the fence marker and an optional newline at the start
StripOpeningFence(s) ==
    IF ~StartsWith(s, FenceMarker) THEN s
    ELSE LET rest == Drop(s, Len(FenceMarker))
         IN  IF rest # <<>> /\ Head(rest) = NL THEN Tail(rest) ELSE rest

\* line 112, second replace: an optional newline and three backquotes at the end
StripClosingFence(s) ==
    IF ~EndsWith(s, Fence) THEN s
    ELSE LET rest == DropLast(s, Len(Fence))
         IN  IF rest # <<>> /\ rest[Len(rest)] = NL THEN DropLast(rest, 1) ELSE rest

IsSpace(c) == c \in {" ", NL}

RECURSIVE TrimStart(_)
TrimStart(s) ==
    IF s # <<>> /\ IsSpace(Head(s)) THEN TrimStart(Tail(s)) ELSE s

RECURSIVE TrimEnd(_)
TrimEnd(s) ==
    IF s # <<>> /\ IsSpace(s[Len(s)]) THEN TrimEnd(DropLast(s, 1)) ELSE s

\* String.prototype.trim
Trim(s) == TrimEnd(TrimStart(s))

(***************************************************************************)
(* The active file and its metadata cache.  A note is a sequence of        *)
(* top-level sections, one newline between two sections; the cache holds   *)
(* each section's type and position and the list of the headings.          *)
(***************************************************************************)
RECURSIVE CountNL(_)
CountNL(s) ==
    IF s = <<>> THEN 0
    ELSE (IF Head(s) = NL THEN 1 ELSE 0) + CountNL(Tail(s))

Heading(text) == [type |-> "heading", text |-> <<"#", " ">> \o text, heading |-> text]

Code(info, body) ==
    [type |-> "code", text |-> Fence \o info \o <<NL>> \o body \o <<NL>> \o Fence,
     heading |-> <<>>]

Paragraph(text) == [type |-> "paragraph", text |-> text, heading |-> <<>>]

RECURSIVE JoinParts(_)
JoinParts(parts) ==
    IF parts = <<>> THEN <<>>
    ELSE IF Len(parts) = 1 THEN parts[1].text
    ELSE parts[1].text \o <<NL>> \o JoinParts(Tail(parts))

\* offset of the first character of part k in the joined content
RECURSIVE StartOffset(_, _)
StartOffset(parts, k) ==
    IF k = 1 THEN 0
    ELSE StartOffset(parts, k - 1) + Len(parts[k - 1].text) + 1

SectionOf(parts, k) ==
    LET start == StartOffset(parts, k)
        text  == JoinParts(parts)
    IN  [type  |-> parts[k].type,
         start |-> [offset |-> start, line |-> CountNL(Substring(text, 0, start))],
         end   |-> [offset |-> start + Len(parts[k].text)]]

HeadingIdx(parts) == SelectSeq([k \in 1..Len(parts) |-> k], LAMBDA k : parts[k].type = "heading")

\* getFileCache(file): sections and headings are left out when there are none
CacheOf(parts) ==
    LET hs == HeadingIdx(parts)
    IN  [isNull      |-> FALSE,
         hasSections |-> parts # <<>>,
         sections    |-> [k \in 1..Len(parts) |-> SectionOf(parts, k)],
         hasHeadings |-> hs # <<>>,
         headings    |-> [j \in 1..Len(hs) |->
                            [heading |-> parts[hs[j]].heading,
                             line    |-> SectionOf(parts, hs[j]).start.line]]]

NullCache ==
    [isNull |-> TRUE, hasSections |-> FALSE, sections |-> <<>>,
     hasHeadings |-> FALSE, headings |-> <<>>]

FileOf(name, parts, indexed) ==
    [active   |-> TRUE,
     basename |-> name,
     content  |-> JoinParts(parts),
     cache    |-> IF indexed THEN CacheOf(parts) ELSE NullCache]

NoFile ==
    [active |-> FALSE, basename |-> <<>>, content |-> <<>>, cache |-> NullCache]

(***************************************************************************)
(* extractMermaidBlocks                                                    *)
(***************************************************************************)
DirectContent == <<"direct content">>

\* the scan of lines 115-121 run from the first heading to the last
RECURSIVE NearestHeadingFrom(_, _, _)
NearestHeadingFrom(headings, i, line) ==
    IF i > Len(headings) THEN DirectContent
    ELSE IF headings[i].line < line THEN headings[i].heading
    ELSE NearestHeadingFrom(headings, i + 1, line)

NearestHeadingFirst(headings, i, line) == NearestHeadingFrom(headings, 1, line)

\* lines 115-121: scan the headings from the last to the first
RECURSIVE NearestHeading(_, _, _)
NearestHeading(headings, i, line) ==
    IF i < 1 THEN DirectContent
    ELSE IF headings[i].line < line THEN headings[i].heading
    ELSE NearestHeading(headings, i - 1, line)

\* the loop of lines 108-126 without the test of line 111
RECURSIVE ExtractAllCode(_, _, _, _)
ExtractAllCode(content, sections, headings, k) ==
    IF k > Len(sections) THEN <<>>
    ELSE LET section      == sections[k]
             blockContent == Substring(content, section.start.offset, section.end.offset)
             rest         == ExtractAllCode(content, sections, headings, k + 1)
         IN  IF section.type = "code"
             THEN <<[code    |-> Trim(StripClosingFence(StripOpeningFence(blockContent))),
                     heading |-> NearestHeading(headings, Len(headings), section.start.line)]>>
                  \o rest
             ELSE rest

\* lines 108-126: the loop over cache.sections, from section k on
RECURSIVE ExtractFrom(_, _, _, _)
ExtractFrom(content, sections, headings, k) ==
    IF k > Len(sections) THEN <<>>
    ELSE LET section      == sections[k]
             blockContent == Substring(content, section.start.offset, section.end.offset)
             rest         == ExtractFrom(content, sections, headings, k + 1)
         IN  IF section.type = "code" /\ StartsWith(blockContent, FenceMarker)
             THEN <<[code    |-> Trim(StripClosingFence(StripOpeningFence(blockContent))),
                     heading |-> NearestHeading(headings, Len(headings), section.start.line)]>>
                  \o rest
             ELSE rest

extractMermaidBlocks(content, cache) ==
    IF cache.isNull \/ ~cache.hasSections THEN <<>>
    ELSE ExtractFrom(content, cache.sections,
                     IF cache.hasHeadings THEN cache.headings ELSE <<>>, 1)

(***************************************************************************)
(* Settings                                                                *)
(***************************************************************************)
DEFAULT_SETTINGS ==
    [imageScale |-> 2, format |-> "png", autoOpen |-> TRUE, overwrite |-> TRUE]

\* Object.assign({}, a, b): the keys of both, b's value where b has the key
ObjectAssign(a, b) ==
    [k \in DOMAIN a \cup DOMAIN b |-> IF k \in DOMAIN b THEN b[k] ELSE a[k]]

\* line 76; loadData() gives null when nothing was saved, which Object.assign
\* skips: null is the record with no key here
loadSettings(loaded) == ObjectAssign(DEFAULT_SETTINGS, loaded)

\* the values a saved data.json may hold for each key
SavedValues ==
    [imageScale |-> {0, 3, 11}, format |-> {"svg", "pdf"}, autoOpen |-> {FALSE},
     overwrite |-> {FALSE}, theme |-> {"dark"}]

\* the key left out, or the key with one of its saved values
SavedKey(k) == {<<>>} \cup {[x \in {k} |-> v] : v \in SavedValues[k]}

\* every record over a subset of the keys: missing, extra and out-of-range keys
PersistedRecords ==
    {ObjectAssign(ObjectAssign(ObjectAssign(ObjectAssign(a, b), c), d), e) :
        a \in SavedKey("imageScale"), b \in SavedKey("format"),
        c \in SavedKey("autoOpen"), d \in SavedKey("overwrite"), e \in SavedKey("theme")}

(***************************************************************************)
(* Bounds and the inputs of the export model                               *)
(***************************************************************************)
MaxHandlers == 1     \* handler invocations (Export Selected presses, save calls)

MaxCommands == 1     \* invocations of the export command or header button

Handlers == DOMAIN procs

MermaidInfo == <<"m", "e", "r", "m", "a", "i", "d">>

ReservedChars == {"\\", "/", ":", "*", "?", "\"", "<", ">", "|"}

\* a heading holding every reserved character, and one that differs from its
\* sanitized form in no character
HeadingReserved == <<"\\", "/", ":", "*", "?", "\"", "<", ">", "|", "a", "/">>

HeadingDashes == <<"-", "-", "-", "-", "-", "-", "-", "-", "-", "a", "-">>

\* a note with two mermaid blocks, each under its own heading
NoteParts ==
    <<Heading(HeadingDashes),
      Code(MermaidInfo, <<"A">>),
      Code(<<"j", "s">>, <<"x">>),
      Heading(HeadingReserved),
      Paragraph(<<"p">>),
      Code(MermaidInfo, <<"B">>)>>

MainFiles ==
    {NoFile, FileOf("Notes", <<Paragraph(<<"p">>)>>, TRUE), FileOf("Notes", NoteParts, TRUE)}

TargetDirs == {"out"}

\* what dialog.showOpenDialog resolves to
OpenDialogResults ==
    {[canceled |-> TRUE, filePaths |-> <<>>], [canceled |-> FALSE, filePaths |-> <<>>]}
    \cup {[canceled |-> FALSE, filePaths |-> <<d>>] : d \in TargetDirs}

\* what dialog.showSaveDialog resolves to
SaveDialogResults ==
    {[canceled |-> TRUE, filePath |-> <<>>],
     [canceled |-> FALSE, filePath |-> <<"out", "/", "picked">>]}

\* what the environment decides during one step of a handler: whether
\* remote.dialog exists, canvas.getContext('2d') gives a context, and
\* fs.writeFileSync succeeds
EnvChoices == [dialog : BOOLEAN, ctx : BOOLEAN, writeOk : BOOLEAN]

(***************************************************************************)
(* Handler state.  A handler is one run of exportBtn.onclick or one call   *)
(* of saveSvgAsImage without a target directory; pc is the await at which  *)
(* it is suspended.  trace is the history of what it did.                  *)
(***************************************************************************)
NoBuffer == [code |-> <<>>, enc |-> "none"]

Idle ==
    [pc |-> "idle", kind |-> "none", modal |-> 0, blocks |-> <<>>, basename |-> "",
     sel |-> <<>>, pos |-> 0, dir |-> "", isBulk |-> FALSE, skipOpen |-> FALSE,
     buffer |-> NoBuffer, fileName |-> <<>>, trace |-> <<>>]

Ev(e, i, x, path) == [e |-> e, i |-> i, x |-> x, path |-> path]

Log(p, ev) == [p EXCEPT !.trace = Append(@, ev)]

Notice(p, i, text) == Log(p, Ev("notice", i, text, <<>>))

\* the index of the loop at line 395 and its block (line 396)
CurIndex(p) == p.sel[p.pos]

CurBlock(p) == p.blocks[CurIndex(p) + 1]

\* the container of the render call the handler is in
CurContainer(h, p) == <<h, p.pos>>

\* line 361: the indices of the checked boxes, ascending
RECURSIVE SelectedFrom(_, _)
SelectedFrom(selected, idx) ==
    IF idx >= Len(selected) THEN <<>>
    ELSE (IF selected[idx + 1] THEN <<idx>> ELSE <<>>) \o SelectedFrom(selected, idx + 1)

SelectedIndices(selected) == SelectedFrom(selected, 0)

(***************************************************************************)
(* The steps of a handler.  A step takes a world w = [p, fs, containers]   *)
(* (the handler's record, the file system, the attached containers) from   *)
(* one await to the next, as the code runs without interruption between    *)
(* two awaits.  settings is read where the code reads it.                  *)
(***************************************************************************)
maxRetries == 200

\* lines 166-176 from inspection first on: the loop ends with the element at
\* the first inspection i < maxRetries that finds it, and with null when none
\* does; the container holds the element from inspection readyAt on
PollLoop(first, readyAt) ==
    IF \E i \in first..(maxRetries - 1) : i >= readyAt THEN "svg" ELSE "null"

\* lines 132-160: create the container, call the render engine and await it
RenderStart(w, h) ==
    [w EXCEPT !.p = Log([@ EXCEPT !.pc = "engine"], Ev("render", CurIndex(@), "", <<>>)),
              !.containers = @ \cup {CurContainer(h, w.p)}]

\* lines 411-414
AfterLoop(w) ==
    [w EXCEPT !.p = [(IF @.isBulk /\ settings.autoOpen
                      THEN Log(@, Ev("open", -1, "dir", <<@.dir>>))
                      ELSE @)
                     EXCEPT !.pc = "done"]]

\* lines 395-405: the next iteration of the loop, or the end of the loop
LoopNext(w, h) ==
    IF w.p.pos <= Len(w.p.sel) THEN RenderStart(w, h)
    ELSE AfterLoop([w EXCEPT !.p = Log(@, Ev("progress", -1, "Export finished.", <<>>))])

\* saveSvgAsImage returns: the loop goes on (line 399), or the call is over
SaveReturn(w, h) ==
    LET w1 == [w EXCEPT !.p.buffer = NoBuffer, !.p.fileName = <<>>]
    IN  IF w.p.kind = "export"
        THEN LoopNext([w1 EXCEPT !.p.pos = @ + 1], h)
        ELSE [w1 EXCEPT !.p.pc = "done"]

\* the replace of line 216 without its g flag: the first reserved character only
RECURSIVE SanitizeFirst(_)
SanitizeFirst(heading) ==
    IF heading = <<>> THEN <<>>
    ELSE IF Head(heading) \in ReservedChars THEN <<"-">> \o Tail(heading)
    ELSE <<Head(heading)>> \o SanitizeFirst(Tail(heading))

\* line 216: each reserved character becomes a dash
RECURSIVE Sanitize(_)
Sanitize(heading) ==
    IF heading = <<>> THEN <<>>
    ELSE <<IF Head(heading) \in ReservedChars THEN "-" ELSE Head(heading)>>
         \o Sanitize(Tail(heading))

\* a file name without the position of the block
defaultFileNameNoIndex(baseName, heading, index, format) ==
    <<baseName, "-">> \o Sanitize(heading) \o <<".", format>>

\* line 217
defaultFileName(baseName, heading, index, format) ==
    <<baseName, "-">> \o Sanitize(heading) \o <<"-", ToString(index + 1), ".", format>>

\* path.join(targetDirectory, defaultFileName)
PathJoin(dir, name) == <<dir, "/">> \o name

WriteFile(files, path, buffer) ==
    [q \in DOMAIN files \cup {path} |-> IF q = path THEN buffer ELSE files[q]]

\* lines 294-304: write, then open the file unless skipOpen
WriteAndOpen(w, h, finalPath, env) ==
    IF ~env.writeOk
    THEN SaveReturn([w EXCEPT !.p = Notice(@, CurIndex(@), "Save failed")], h)
    ELSE LET w1 == [w EXCEPT !.fs = WriteFile(@, finalPath, w.p.buffer),
                             !.p = Log(@, Ev("write", CurIndex(@), "", finalPath))]
         IN  IF settings.autoOpen /\ ~w.p.skipOpen
             THEN [w1 EXCEPT !.p = Log([@ EXCEPT !.pc = "openFile"],
                                       Ev("open", CurIndex(@), "file", finalPath))]
             ELSE SaveReturn(w1, h)

\* the existing-file check with the negation of the setting lost
SkipExistingInverted(files, finalPath) == finalPath \in DOMAIN files /\ settings.overwrite

\* lines 268-274: the existing-file check
SkipExisting(files, finalPath) == finalPath \in DOMAIN files /\ ~settings.overwrite

\* lines 256-292: from the buffer to the final path
Persist(w, h, env) ==
    IF w.p.dir # ""
    THEN LET finalPath == PathJoin(w.p.dir, w.p.fileName)
         IN  IF SkipExisting(w.fs, finalPath)
             THEN SaveReturn([w EXCEPT !.p = IF ~@.skipOpen
                                             THEN Notice(@, CurIndex(@), "File already exists")
                                             ELSE @], h)
             ELSE WriteAndOpen(w, h, finalPath, env)
    ELSE IF ~env.dialog
         THEN SaveReturn([w EXCEPT !.p = Notice(@, CurIndex(@), "Electron dialog not available.")], h)
         ELSE [w EXCEPT !.p.pc = "saveDialog"]

\* lines 199-254: the file name and the buffer, up to the await of the image
SaveStart(w, h, env) ==
    LET name == defaultFileName(w.p.basename, CurBlock(w.p).heading, CurIndex(w.p),
                                settings.format)
        w1   == [w EXCEPT !.p = Log([@ EXCEPT !.fileName = name],
                                    Ev("save", CurIndex(@), settings.format, name))]
    IN  IF settings.format = "svg"
        THEN Persist([w1 EXCEPT !.p.buffer = [code |-> CurBlock(w.p).code, enc |-> "svg"]],
                     h, env)
        ELSE IF ~env.ctx
             THEN SaveReturn([w1 EXCEPT !.p = Notice(@, CurIndex(@),
                                                     "Failed to create image buffer.")], h)
             ELSE [w1 EXCEPT !.p.pc = "image"]

\* lines 241-252: the image loaded or failed to load
ImageSettled(w, h, loaded, env) ==
    IF loaded
    THEN Persist([w EXCEPT !.p.buffer = [code |-> CurBlock(w.p).code, enc |-> "png"]], h, env)
    ELSE SaveReturn([w EXCEPT !.p = Notice(@, CurIndex(@), "Save failed")], h)

\* line 289 without its test of canceled
SaveDialogAcceptedAlways(result) == TRUE

\* line 289
SaveDialogAccepted(result) == ~result.canceled /\ result.filePath # <<>>

\* lines 289-292 and 294-304: the save dialog resolved
SaveDialogSettled(w, h, result, env) ==
    LET w1 == [w EXCEPT !.p = Log(@, Ev("dialog", CurIndex(@),
                                        IF result.canceled THEN "canceled" ELSE "chosen",
                                        result.filePath))]
    IN  IF SaveDialogAccepted(result)
        THEN WriteAndOpen(w1, h, result.filePath, env)
        ELSE SaveReturn(w1, h)

\* lines 178-195 and 397-402: the render call returns result
RenderReturn(w, h, result, env) ==
    LET w1 == [w EXCEPT !.containers = @ \ {CurContainer(h, w.p)},
                        !.p = Log(@, Ev("rendered", CurIndex(@), result, <<>>))]
    IN  IF result = "svg"
        THEN SaveStart(w1, h, env)
        ELSE LoopNext([w1 EXCEPT !.p = [Notice(@, CurIndex(@), "Failed to render diagram")
                                        EXCEPT !.pos = @ + 1]], h)

\* the render engine rejects at line 160: nothing of lines 162-195 runs, and
\* the error is caught at line 406
RenderThrow(w, h) ==
    AfterLoop([w EXCEPT !.p = Notice(Log(@, Ev("rendered", CurIndex(@), "throw", <<>>)),
                                      CurIndex(@), "Export failed")])

(***************************************************************************)
(* Actions                                                                 *)
(***************************************************************************)
World(h) == [p |-> procs[h], fs |-> fs, containers |-> containers]

Apply(h, w) ==
    /\ procs' = [procs EXCEPT ![h] = w.p]
    /\ fs' = w.fs
    /\ containers' = w.containers

\* the handler slot of the next invocation
FreeHandler(h) ==
    /\ procs[h].pc = "idle"
    /\ \A g \in Handlers : g < h => procs[g].pc # "idle"

\* lines 83-99 (and the constructor, lines 319-325): the command or a header button
exportMermaidDiagrams ==
    /\ IF ~file.active
       THEN /\ cmdLog' = Append(cmdLog, "No active file.")
            /\ UNCHANGED modals
       ELSE LET mermaidBlocks == extractMermaidBlocks(file.content, file.cache)
            IN  IF Len(mermaidBlocks) = 0
                THEN /\ cmdLog' = Append(cmdLog, "No mermaid blocks found in this note.")
                     /\ UNCHANGED modals
                ELSE /\ cmdLog' = Append(cmdLog, "modal")
                     /\ modals' = Append(modals,
                            [open     |-> TRUE,
                             blocks   |-> mermaidBlocks,
                             basename |-> file.basename,
                             selected |-> [k \in 1..Len(mermaidBlocks) |-> FALSE]])
    /\ UNCHANGED <<data, settings, file, procs, fs, containers>>

\* lines 440-442: a checkbox of an open modal changes
ToggleCheckbox(m, k) ==
    /\ modals[m].open
    /\ modals' = [modals EXCEPT ![m].selected[k] = ~@]
    /\ UNCHANGED <<data, settings, file, cmdLog, procs, fs, containers>>

\* lines 336-346: Select All and Deselect All
FillSelected(m, value) ==
    /\ modals[m].open
    /\ modals' = [modals EXCEPT ![m].selected = [k \in DOMAIN @ |-> value]]
    /\ UNCHANGED <<data, settings, file, cmdLog, procs, fs, containers>>

\* lines 360-380: Export Selected is pressed, up to the await of the directory dialog
ExportClick(m, h, env) ==
    /\ modals[m].open
    /\ FreeHandler(h)
    /\ LET selectedIndices == SelectedIndices(modals[m].selected)
           p == [Idle EXCEPT !.kind = "export", !.modal = m,
                             !.blocks = modals[m].blocks,
                             !.basename = modals[m].basename,
                             !.sel = selectedIndices]
       IN  procs' = [procs EXCEPT ![h] =
               IF Len(selectedIndices) = 0
               THEN [Notice(p, -1, "No blocks selected") EXCEPT !.pc = "done"]
               ELSE IF ~env.dialog
               THEN [Notice(p, -1, "Electron dialog not available.") EXCEPT !.pc = "done"]
               ELSE [p EXCEPT !.pc = "dirDialog"]]
    /\ UNCHANGED <<data, settings, file, modals, cmdLog, fs, containers>>

\* lines 382-397: the directory dialog resolved; on a directory the modal is
\* closed and the first block's render starts
DirDialogSettled(h, result) ==
    /\ procs[h].pc = "dirDialog"
    /\ IF result.canceled \/ Len(result.filePaths) = 0
       THEN /\ procs' = [procs EXCEPT ![h] =
                            [Log(@, Ev("dialog", -1, "canceled", <<>>)) EXCEPT !.pc = "done"]]
            /\ UNCHANGED <<modals, fs, containers>>
       ELSE LET p == [procs[h] EXCEPT !.dir = result.filePaths[1],
                                      !.isBulk = Len(procs[h].sel) > 1,
                                      !.skipOpen = Len(procs[h].sel) > 1,
                                      !.pos = 1]
                q == Log(Log(p, Ev("dialog", -1, "chosen", <<p.dir>>)),
                         Ev("progress", -1, "Exporting", <<>>))
            IN  /\ modals' = [modals EXCEPT ![procs[h].modal].open = FALSE]
                /\ Apply(h, LoopNext([World(h) EXCEPT !.p = q], h))
    /\ UNCHANGED <<data, settings, file, cmdLog>>

\* line 160 resolved and the first inspection of the container (i = 0) ran:
\* the element is there and the call returns it, or the loop awaits its timer
EngineReturn(h, found, env) ==
    /\ procs[h].pc = "engine"
    /\ Apply(h, IF found THEN RenderReturn(World(h), h, PollLoop(0, 0), env)
                ELSE [World(h) EXCEPT !.p.pc = "poll"])
    /\ UNCHANGED <<data, settings, file, modals, cmdLog>>

\* line 160 rejected
EngineThrow(h) ==
    /\ procs[h].pc = "engine"
    /\ Apply(h, RenderThrow(World(h), h))
    /\ UNCHANGED <<data, settings, file, modals, cmdLog>>

\* lines 166-195: the rest of the poll loop, the element appearing at
\* inspection readyAt, or never within the loop
PollRest(h, readyAt, env) ==
    /\ procs[h].pc = "poll"
    /\ Apply(h, RenderReturn(World(h), h, PollLoop(1, readyAt), env))
    /\ UNCHANGED <<data, settings, file, modals, cmdLog>>

\* lines 241-248: img.onload or img.onerror
ImageEvent(h, loaded, env) ==
    /\ procs[h].pc = "image"
    /\ Apply(h, ImageSettled(World(h), h, loaded, env))
    /\ UNCHANGED <<data, settings, file, modals, cmdLog>>

\* line 299 settled (a failure is logged at line 301 and nothing else happens)
OpenPathSettled(h) ==
    /\ procs[h].pc = "openFile"
    /\ Apply(h, SaveReturn(World(h), h))
    /\ UNCHANGED <<data, settings, file, modals, cmdLog>>

\* line 282 resolved
SaveDialogEvent(h, result, env) ==
    /\ procs[h].pc = "saveDialog"
    /\ Apply(h, SaveDialogSettled(World(h), h, result, env))
    /\ UNCHANGED <<data, settings, file, modals, cmdLog>>

\* lines 198-254: saveSvgAsImage called with no targetDirectory and no skipOpen,
\* for block index of the active note
CallSaveSvgAsImage(h, index, env) ==
    /\ FreeHandler(h)
    /\ file.active
    /\ LET blocks == extractMermaidBlocks(file.content, file.cache)
       IN  /\ index < Len(blocks)
           /\ Apply(h, SaveStart([World(h) EXCEPT !.p =
                  [Idle EXCEPT !.kind = "save", !.blocks = blocks,
                               !.basename = file.basename,
                               !.sel = <<index>>, !.pos = 1]], h, env))
    /\ UNCHANGED <<data, settings, file, modals, cmdLog>>

\* lines 490-525: a control of the settings tab changes; saveSettings writes the record
ChangeSetting(key, value) ==
    /\ settings' = [settings EXCEPT ![key] = value]
    /\ data' = settings'
    /\ UNCHANGED <<file, modals, cmdLog, procs, fs, containers>>

SetImageScale == \E value \in 1..10 : ChangeSetting("imageScale", value)

SetFormat == \E value \in {"png", "svg"} : ChangeSetting("format", value)

SetAutoOpen == \E value \in BOOLEAN : ChangeSetting("autoOpen", value)

SetOverwrite == \E value \in BOOLEAN : ChangeSetting("overwrite", value)

(***************************************************************************)
(* The export specification: the plugin after onload, one active file      *)
(***************************************************************************)
\* what data.json holds at startup: nothing, or a record saved earlier
MainRecords == {<<>>}

EmptyFs == [q \in {} |-> NoBuffer]

OldBuffer == [code |-> <<"o", "l", "d">>, enc |-> "old"]

\* the target directory is empty, or holds files of an earlier export of the note
InitialFs ==
    {EmptyFs,
     [q \in {PathJoin("out", defaultFileName("Notes", HeadingDashes, 0, "png")),
             PathJoin("out", defaultFileName("Notes", HeadingReserved, 1, "svg"))}
        |-> OldBuffer]}

Init ==
    /\ data \in MainRecords
    /\ settings = loadSettings(data)
    /\ file \in MainFiles
    /\ modals = <<>>
    /\ cmdLog = <<>>
    /\ procs = [h \in 1..MaxHandlers |-> Idle]
    /\ fs \in InitialFs
    /\ containers = {}

ReadyAt == {1, maxRetries - 1, maxRetries}

Next ==
    \/ Len(cmdLog) < MaxCommands /\ exportMermaidDiagrams
    \/ \E m \in DOMAIN modals : \E k \in DOMAIN modals[m].selected : ToggleCheckbox(m, k)
    \/ \E m \in DOMAIN modals : \E value \in BOOLEAN : FillSelected(m, value)
    \/ \E m \in DOMAIN modals : \E h \in Handlers : \E env \in EnvChoices : ExportClick(m, h, env)
    \/ \E h \in Handlers : \E result \in OpenDialogResults : DirDialogSettled(h, result)
    \/ \E h \in Handlers : \E found \in BOOLEAN : \E env \in EnvChoices : EngineReturn(h, found, env)
    \/ \E h \in Handlers : EngineThrow(h)
    \/ \E h \in Handlers : \E readyAt \in ReadyAt : \E env \in EnvChoices : PollRest(h, readyAt, env)
    \/ \E h \in Handlers : \E loaded \in BOOLEAN : \E env \in EnvChoices : ImageEvent(h, loaded, env)
    \/ \E h \in Handlers : OpenPathSettled(h)
    \/ \E h \in Handlers : \E result \in SaveDialogResults : \E env \in EnvChoices :
          SaveDialogEvent(h, result, env)
    \/ \E h \in Handlers : \E index \in 0..1 : \E env \in EnvChoices :
          CallSaveSvgAsImage(h, index, env)
    \/ SetFormat
    \/ SetAutoOpen
    \/ SetOverwrite

Spec == Init /\ [][Next]_vars

(***************************************************************************)
(* The concurrency specification: two handlers of the same note run at the *)
(* same time; every dialog, context and write succeeds or is cancelled,    *)
(* and the settings stay as loaded.                                        *)
(***************************************************************************)
ConcHandlers == 2

ConcCommands == 2

EnvOk == [dialog |-> TRUE, ctx |-> TRUE, writeOk |-> TRUE]

InitConc ==
    /\ data = <<>>
    /\ settings = loadSettings(data)
    /\ file = FileOf("Notes", NoteParts, TRUE)
    /\ modals = <<>>
    /\ cmdLog = <<>>
    /\ procs = [h \in 1..ConcHandlers |-> Idle]
    /\ fs = EmptyFs
    /\ containers = {}

NextConc ==
    \/ Len(cmdLog) < ConcCommands /\ exportMermaidDiagrams
    \/ \E m \in DOMAIN modals : \E k \in DOMAIN modals[m].selected : ToggleCheckbox(m, k)
    \/ \E m \in DOMAIN modals : \E h \in Handlers : ExportClick(m, h, EnvOk)
    \/ \E h \in Handlers : \E result \in OpenDialogResults : DirDialogSettled(h, result)
    \/ \E h \in Handlers : \E found \in BOOLEAN : EngineReturn(h, found, EnvOk)
    \/ \E h \in Handlers : \E readyAt \in ReadyAt : PollRest(h, readyAt, EnvOk)
    \/ \E h \in Handlers : \E loaded \in BOOLEAN : ImageEvent(h, loaded, EnvOk)
    \/ \E h \in Handlers : OpenPathSettled(h)

SpecConc == InitConc /\ [][NextConc]_vars

(***************************************************************************)
(* The settings specification: the plugin loads any saved record and the   *)
(* controls of the settings tab change it                                  *)
(***************************************************************************)
InitSettings ==
    /\ data \in PersistedRecords
    /\ settings = loadSettings(data)
    /\ file = NoFile
    /\ modals = <<>>
    /\ cmdLog = <<>>
    /\ procs = [h \in 1..MaxHandlers |-> Idle]
    /\ fs = EmptyFs
    /\ containers = {}

NextSettings ==
    \/ SetImageScale
    \/ SetFormat
    \/ SetAutoOpen
    \/ SetOverwrite

SpecSettings == InitSettings /\ [][NextSettings]_vars

(***************************************************************************)
(* The extraction specification: the command runs on any note of at most   *)
(* MaxParts sections                                                       *)
(***************************************************************************)
MaxParts == 3

PartKinds ==
    {Heading(<<"a">>), Heading(<<"b">>),
     Code(MermaidInfo, <<"A">>), Code(MermaidInfo, <<"B">>), Code(MermaidInfo, <<" ">>),
     Code(<<"j", "s">>, <<"x">>), Code(<<>>, <<"x">>),
     Paragraph(<<"p">>)}

ExtractFiles ==
    {NoFile, FileOf("Notes", <<>>, FALSE)}
    \cup UNION {{FileOf("Notes", parts, TRUE) : parts \in [1..n -> PartKinds]} : n \in 0..MaxParts}

InitExtract ==
    /\ data = <<>>
    /\ settings = loadSettings(data)
    /\ file \in ExtractFiles
    /\ modals = <<>>
    /\ cmdLog = <<>>
    /\ procs = [h \in 1..MaxHandlers |-> Idle]
    /\ fs = EmptyFs
    /\ containers = {}

NextExtract == Len(cmdLog) < MaxCommands /\ exportMermaidDiagrams

SpecExtract == InitExtract /\ [][NextExtract]_vars

(***************************************************************************)
(* Properties                                                              *)
(***************************************************************************)
HasEv(tr, e, i) == \E k \in DOMAIN tr : tr[k].e = e /\ tr[k].i = i

HasEvX(tr, e, i, x) == \E k \in DOMAIN tr : tr[k].e = e /\ tr[k].i = i /\ tr[k].x = x

\* the events a step appends to the trace of handler h
NewEvents(h) == SubSeq(procs'[h].trace, Len(procs[h].trace) + 1, Len(procs'[h].trace))

\* an export handler whose directory dialog gave a directory and whose run is over
ExportOver(p) == p.kind = "export" /\ p.dir # "" /\ p.pc = "done"

\* the render or the encoding of block i failed in the run with trace tr
BlockFailed(tr, i) ==
    \/ HasEvX(tr, "rendered", i, "null")
    \/ HasEvX(tr, "rendered", i, "throw")
    \/ HasEvX(tr, "notice", i, "Save failed")
    \/ HasEvX(tr, "notice", i, "Failed to create image buffer.")

\* C1: in a finished batch export every selected block was rendered, every
\* rendered block was passed to the save step, and every block whose render or
\* encoding failed has a notice of its own -- so a failure of one block stops
\* none of the blocks after it.
C1_FailureDoesNotStopBatch ==
    \A h \in DOMAIN procs :
        LET p == procs[h]
        IN  ExportOver(p) =>
                \A j \in DOMAIN p.sel :
                    /\ HasEv(p.trace, "render", p.sel[j])
                    /\ HasEvX(p.trace, "rendered", p.sel[j], "svg")
                          => HasEv(p.trace, "save", p.sel[j])
                    /\ BlockFailed(p.trace, p.sel[j]) => HasEv(p.trace, "notice", p.sel[j])

\* C2: every temporary container attached to the body belongs to a render call
\* that has not returned yet: once a call is over its container is gone.
C2_ContainerRemoved ==
    \A c \in containers :
        /\ procs[c[1]].pc \in {"engine", "poll"}
        /\ procs[c[1]].pos = c[2]

\* C3: at most one call of renderMermaidToSvg is in flight.
C3_OneRenderInFlight ==
    Cardinality({h \in DOMAIN procs : procs[h].pc \in {"engine", "poll"}}) <= 1

\* the step of handler h brings a buffer to the existing-file check for path:
\* the buffer of the vector format is made in the step that starts the save,
\* the buffer of the raster format in the step in which the image has loaded
ReachesCheck(h, path) ==
    /\ procs'[h].dir # ""
    /\ \/ \E k \in DOMAIN NewEvents(h) :
             /\ NewEvents(h)[k].e = "save"
             /\ NewEvents(h)[k].x = "svg"
             /\ path = PathJoin(procs'[h].dir, NewEvents(h)[k].path)
       \/ /\ procs[h].pc = "image"
          /\ procs'[h] # procs[h]
          /\ ~HasEvX(NewEvents(h), "notice", CurIndex(procs[h]), "Save failed")
          /\ path = PathJoin(procs[h].dir, procs[h].fileName)

\* after the save step of the current block the loop is at the next block
Continues(h) ==
    /\ procs'[h].pos = procs[h].pos + 1
    /\ IF procs'[h].pos <= Len(procs'[h].sel)
       THEN /\ procs'[h].pc = "engine"
            /\ HasEv(NewEvents(h), "render", CurIndex(procs'[h]))
       ELSE procs'[h].pc = "done"

SkipStep(h) ==
    \E path \in DOMAIN fs : ReachesCheck(h, path) /\ ~settings.overwrite

OpensDir(tr) == \E k \in DOMAIN tr : tr[k].e = "open" /\ tr[k].x = "dir"

OpensFile(tr) == \E k \in DOMAIN tr : tr[k].e = "open" /\ tr[k].x = "file"

\* the render step of block i ran to its end, and so did its save step if it
\* rendered
BlockCompleted(tr, i) ==
    /\ HasEv(tr, "rendered", i)
    /\ HasEvX(tr, "rendered", i, "svg") => HasEv(tr, "save", i)

\* C5: a step of a batch export opens no exported file; it opens the target
\* directory only if the directory was not opened before and the render and
\* save steps of every selected block are over; and the step that ends the
\* batch with autoOpen enabled opens the directory.
C5_BatchOpensDirectoryOnce ==
    [][\A h \in DOMAIN procs :
          (procs'[h].kind = "export" /\ procs'[h].isBulk) =>
              /\ ~OpensFile(NewEvents(h))
              /\ OpensDir(NewEvents(h)) =>
                    /\ ~OpensDir(procs[h].trace)
                    /\ \A j \in DOMAIN procs'[h].sel :
                          BlockCompleted(procs'[h].trace, procs'[h].sel[j])
              /\ (procs[h].pc # "done" /\ procs'[h].pc = "done" /\ settings.autoOpen)
                    => OpensDir(NewEvents(h))]_vars

Cancelled(tr) == \E k \in DOMAIN tr : tr[k].e = "dialog" /\ tr[k].x = "canceled"

\* C6: a handler whose directory picker or file-save prompt was cancelled is
\* over, and it rendered nothing, wrote nothing, opened nothing and showed no
\* notice: its trace holds the dialog and, for the save prompt, the save call.
C6_CancelIsSilent ==
    \A h \in DOMAIN procs :
        Cancelled(procs[h].trace) =>
            /\ procs[h].pc = "done"
            /\ \A k \in DOMAIN procs[h].trace : procs[h].trace[k].e \in {"dialog", "save"}
            /\ procs[h].kind = "export" =>
                  \A k \in DOMAIN procs[h].trace : procs[h].trace[k].e = "dialog"

\* a save call that got a buffer and whose file-save prompt was cancelled
C6_Witness ==
    \E h \in DOMAIN procs :
        /\ procs[h].kind = "save"
        /\ HasEv(procs[h].trace, "save", CurIndex(procs[h]))
        /\ Cancelled(procs[h].trace)

\* the code sections of the note whose content begins with the fence marker
MermaidSections(f) ==
    SelectSeq(f.cache.sections,
              LAMBDA sec : /\ sec.type = "code"
                           /\ StartsWith(Substring(f.content, sec.start.offset, sec.end.offset),
                                         FenceMarker))

\* the text of the last heading of the list that starts above line, or the sentinel
LastHeadingAbove(headings, line) ==
    LET above == {j \in DOMAIN headings : headings[j].line < line}
    IN  IF above = {} THEN DirectContent
        ELSE headings[CHOOSE j \in above : \A i \in above : i <= j].heading

\* C7: the heading of the k-th extracted block is the text of the last heading
\* whose start line is smaller than the start line of the k-th mermaid section,
\* and the sentinel when there is no such heading.
C7_NearestHeading ==
    \A m \in DOMAIN modals :
        \A k \in DOMAIN modals[m].blocks :
            /\ k <= Len(MermaidSections(file))
            /\ modals[m].blocks[k].heading =
                  LastHeadingAbove(file.cache.headings, MermaidSections(file)[k].start.line)

\* a block that is labelled with a heading while the last heading of the note
\* starts below the block
C7_Witness ==
    \E m \in DOMAIN modals :
        \E k \in DOMAIN modals[m].blocks :
            /\ modals[m].blocks[k].heading # DirectContent
            /\ Len(MermaidSections(file)) >= k
            /\ file.cache.headings[Len(file.cache.headings)].line
                  > MermaidSections(file)[k].start.line

\* the lines of a fenced block between its first and its last line, trimmed
RECURSIVE FirstNL(_, _)
FirstNL(text, k) ==
    IF k > Len(text) THEN k ELSE IF text[k] = NL THEN k ELSE FirstNL(text, k + 1)

RECURSIVE LastNL(_, _)
LastNL(text, k) ==
    IF k < 1 THEN k ELSE IF text[k] = NL THEN k ELSE LastNL(text, k - 1)

BodyOf(text) == Trim(SubSeq(text, FirstNL(text, 1) + 1, LastNL(text, Len(text)) - 1))

\* C8: the command extracts one block for each mermaid section of the note, in
\* the order of the sections, and finds no block exactly when the note has none.
C8_ExtractsEveryBlock ==
    LET ms == MermaidSections(file)
    IN  /\ \A m \in DOMAIN modals :
              /\ Len(modals[m].blocks) = Len(ms)
              /\ \A k \in DOMAIN ms :
                    modals[m].blocks[k].code =
                        BodyOf(Substring(file.content, ms[k].start.offset, ms[k].end.offset))
        /\ \A c \in DOMAIN cmdLog :
              /\ cmdLog[c] = "modal" => Len(ms) > 0
              /\ cmdLog[c] = "No mermaid blocks found in this note." => Len(ms) = 0
              /\ cmdLog[c] = "No active file." => ~file.active

\* two blocks with different code extracted from a note that also has a code
\* section that is no mermaid block
C8_Witness ==
    \E m \in DOMAIN modals :
        /\ Len(modals[m].blocks) = 2
        /\ modals[m].blocks[1].code # modals[m].blocks[2].code
        /\ \E k \in DOMAIN file.cache.sections :
              /\ file.cache.sections[k].type = "code"
              /\ Len(MermaidSections(file)) = 2
              /\ Len(SelectSeq(file.cache.sections, LAMBDA sec : sec.type = "code")) = 3

\* C9: imageScale is an integer from 1 to 10 and format is png or svg.
C9_SettingsInRange ==
    /\ settings.imageScale \in 1..10
    /\ settings.format \in {"png", "svg"}

\* C10: the file name of a save step is the base name, a dash, the heading with
\* each reserved character replaced by a dash and every other character kept, a
\* dash, the position of the block in the list of all extracted blocks counted
\* from 1, a dot and the configured format.
C10_FileName ==
    [][\A h \in DOMAIN procs :
          \A k \in DOMAIN NewEvents(h) :
              NewEvents(h)[k].e = "save" =>
                  LET name    == NewEvents(h)[k].path
                      i       == NewEvents(h)[k].i
                      heading == procs'[h].blocks[i + 1].heading
                      n       == Len(heading)
                  IN  /\ procs'[h].blocks = extractMermaidBlocks(file.content, file.cache)
                      /\ Len(name) = n + 6
                      /\ name[1] = procs'[h].basename
                      /\ name[2] = "-"
                      /\ \A j \in 1..n :
                            /\ name[2 + j] = (IF heading[j] \in ReservedChars
                                              THEN "-" ELSE heading[j])
                            /\ name[2 + j] \notin ReservedChars
                      /\ name[n + 3] = "-"
                      /\ name[n + 4] = ToString(i + 1)
                      /\ name[n + 5] = "."
                      /\ name[n + 6] = settings.format]_vars

\* an export of the second block alone reached its save step: the block is the
\* first of the selected blocks and the second of the extracted blocks, and its
\* heading holds reserved characters
C10_Witness ==
    \E h \in DOMAIN procs :
        /\ procs[h].kind = "export"
        /\ procs[h].sel = <<1>>
        /\ HasEv(procs[h].trace, "save", 1)
        /\ \E j \in DOMAIN procs[h].blocks[2].heading :
              procs[h].blocks[2].heading[j] \in ReservedChars

(***************************************************************************)
(* The poll loop of renderMermaidToSvg, one iteration at a time.  One call *)
(* of renderMermaidToSvg is followed from the await of the render engine   *)
(* to its return.  The container holds a sequence of svg elements in       *)
(* document order; the render engine fills it while the loop sleeps.       *)
(***************************************************************************)
MaxDom == 2

\* an svg element of the container: cls says that the element itself carries
\* the class copy-code-button, inButton that an ancestor of it does
DiagramSvg == [cls |-> FALSE, inButton |-> FALSE]

ClassedIcon == [cls |-> TRUE, inButton |-> FALSE]

ButtonIcon == [cls |-> FALSE, inButton |-> TRUE]

SvgKinds == {DiagramSvg, ClassedIcon, ButtonIcon}

IsCopyButtonIcon(el) == el.cls \/ el.inButton

\* line 168: the first svg of the container that does not carry the class
\* (0 stands for null)
QuerySelector(dom) ==
    IF \E k \in DOMAIN dom : ~dom[k].cls
    THEN CHOOSE k \in DOMAIN dom : ~dom[k].cls /\ \A j \in 1..(k - 1) : dom[j].cls
    ELSE 0

\* an inspection that takes the first svg whatever it is
InspectAnySvg(dom) == IF dom # <<>> THEN 1 ELSE 0

\* lines 168-171: one inspection of the container; the candidate is accepted
\* when it has no ancestor of the class either
Inspect(dom) ==
    LET candidate == QuerySelector(dom)
    IN  IF candidate # 0 /\ ~dom[candidate].inButton THEN candidate ELSE 0

\* the locals of one call of renderMermaidToSvg: i is the loop counter,
\* inspections and waits count the evaluations of line 168 and of line 175,
\* kind and el are the value returned (el the element that was cloned)
PollCall ==
    [pc |-> "engine", i |-> 0, inspections |-> 0, waits |-> 0, dom |-> <<>>,
     kind |-> "none", el |-> 0]

PollContainer(h) == <<h, 1>>

\* lines 178-195: clone the element found, or null; remove the container
PollFinish(w, h, target) ==
    [w EXCEPT !.p.pc = "returned",
              !.p.kind = IF target # 0 THEN "svg" ELSE "null",
              !.p.el = target,
              !.containers = @ \ {PollContainer(h)}]

\* lines 166-176 from the loop condition on, up to the next await or the return
PollIterate(w, h) ==
    IF w.p.i < maxRetries
    THEN LET targetSvg == Inspect(w.p.dom)
         IN  IF targetSvg # 0
             THEN PollFinish([w EXCEPT !.p.inspections = @ + 1], h, targetSvg)
             ELSE [w EXCEPT !.p.inspections = @ + 1,
                            !.p.waits = @ + 1,
                            !.p.pc = "timer"]
    ELSE PollFinish(w, h, 0)

\* the contents of the container when line 160 resolves
DomsUpTo(n) == UNION {[1..k -> SvgKinds] : k \in 0..n}

\* line 160 resolved: the loop starts with i = 0
PollEngineReturn(h, dom) ==
    /\ procs[h].pc = "engine"
    /\ Apply(h, PollIterate([World(h) EXCEPT !.p.dom = dom], h))
    /\ UNCHANGED <<data, settings, file, modals, cmdLog>>

\* line 160 rejected: the loop is never entered
PollEngineThrow(h) ==
    /\ procs[h].pc = "engine"
    /\ Apply(h, [World(h) EXCEPT !.p.pc = "thrown"])
    /\ UNCHANGED <<data, settings, file, modals, cmdLog>>

\* line 175: the 50ms timer fires, i++ and the loop goes on
PollTimer(h) ==
    /\ procs[h].pc = "timer"
    /\ Apply(h, PollIterate([World(h) EXCEPT !.p.i = @ + 1], h))
    /\ UNCHANGED <<data, settings, file, modals, cmdLog>>

\* the render engine adds an svg to the container while the loop sleeps, in
\* front of the others or behind them
EngineProduces(h, el, front) ==
    /\ procs[h].pc = "timer"
    /\ Len(procs[h].dom) < MaxDom
    /\ procs' = [procs EXCEPT ![h].dom = IF front THEN <<el>> \o @ ELSE Append(@, el)]
    /\ UNCHANGED <<data, settings, file, modals, cmdLog, fs, containers>>

InitPoll ==
    /\ data = <<>>
    /\ settings = loadSettings(data)
    /\ file = NoFile
    /\ modals = <<>>
    /\ cmdLog = <<>>
    /\ procs = [h \in {1} |-> PollCall]
    /\ fs = EmptyFs
    /\ containers = {PollContainer(1)}

NextPoll ==
    \/ \E h \in Handlers : \E dom \in DomsUpTo(MaxDom) : PollEngineReturn(h, dom)
    \/ \E h \in Handlers : PollEngineThrow(h)
    \/ \E h \in Handlers : PollTimer(h)
    \/ \E h \in Handlers : \E el \in SvgKinds : \E front \in BOOLEAN : EngineProduces(h, el, front)

\* a timer that was set fires
SpecPoll ==
    InitPoll /\ [][NextPoll]_vars /\ WF_vars(PollTimer(1))

\* what the counters and the result of one call say about the loop
PollBounded(p) ==
    /\ p.inspections <= maxRetries
    /\ p.pc = "timer" => p.inspections = p.i + 1 /\ p.waits = p.inspections
    /\ p.pc = "returned" =>
          /\ p.kind \in {"svg", "null"}
          /\ p.kind = "svg" =>
                /\ p.el \in DOMAIN p.dom
                /\ ~IsCopyButtonIcon(p.dom[p.el])
                /\ p.waits = p.inspections - 1
          /\ p.kind = "null" =>
                /\ p.inspections = maxRetries
                /\ p.waits = maxRetries

\* C11: once the render call has returned, the container is inspected at most
\* 200 times with one 50ms wait after each unsuccessful inspection; the call
\* returns the element of the first successful inspection, which is not a
\* copy-button icon; it returns null only after 200 unsuccessful inspections;
\* and a loop that was entered always returns (it neither raises nor waits
\* forever).
C11_PollTerminates ==
    /\ [](\A h \in DOMAIN procs : PollBounded(procs[h]))
    /\ (procs[1].pc = "timer") ~> (procs[1].pc = "returned")

\* a call that returned null after 200 inspections of a container in which the
\* render engine never produced a diagram
C11_Witness ==
    \E h \in DOMAIN procs :
        /\ procs[h].pc = "returned"
        /\ procs[h].kind = "null"
        /\ procs[h].inspections = maxRetries
        /\ \A k \in DOMAIN procs[h].dom : IsCopyButtonIcon(procs[h].dom[k])

\* the events e of a trace that belong to the blocks of an export
BlockEvents(tr, e) == {k \in DOMAIN tr : tr[k].e = e /\ tr[k].i >= 0}

\* C12: within one export into one target directory, the save steps of two
\* different blocks never compute the same target path, a block is written at
\* most once, and two writes of the export never go to the same path,
\* whatever the headings of the blocks are.
C12_DistinctTargets ==
    \A h \in DOMAIN procs :
        LET p == procs[h]
        IN  p.kind = "export" =>
              /\ \A k1, k2 \in BlockEvents(p.trace, "save") :
                    p.trace[k1].i # p.trace[k2].i =>
                        PathJoin(p.dir, p.trace[k1].path) # PathJoin(p.dir, p.trace[k2].path)
              /\ \A k1, k2 \in BlockEvents(p.trace, "write") :
                    k1 # k2 =>
                        /\ p.trace[k1].i # p.trace[k2].i
                        /\ p.trace[k1].path # p.trace[k2].path

\* a finished export that wrote two blocks whose headings differ and sanitize
\* to the same text
C12_Witness ==
    \E h \in DOMAIN procs :
        LET p == procs[h]
        IN  /\ p.kind = "export"
            /\ ExportOver(p)
            /\ HasEv(p.trace, "write", 0)
            /\ HasEv(p.trace, "write", 1)
            /\ p.blocks[1].heading # p.blocks[2].heading
            /\ Sanitize(p.blocks[1].heading) = Sanitize(p.blocks[2].heading)

====
